---------------------------- MODULE Spec2Model ----------------------------
(***************************************************************************)
(* A model of site_generator.py: the page planner (Planner), the link      *)
(* samplers (build_internal_links, build_external_links), the article      *)
(* writer (write_article_page) and the generation run (generate_all).      *)
(*                                                                         *)
(* Reading of the source.  The file interleaves two revisions of the       *)
(* generator: class Planner is declared twice (lines 364 and 410), two     *)
(* module-level loops sit inside write_article_page (lines 616-624) and    *)
(* write_sitemaps is called with two signatures (lines 956-957).  The      *)
(* model composes the definitions the way the run reaches them:            *)
(*   - the run is generate_all (918-961), started by the CLI block;        *)
(*   - Planner(total, output_root) is __init__ of lines 374-381, with      *)
(*     by_lang_cat first bound as in line 414, and _build of 417-439;      *)
(*   - write_article_page is lines 609-615 followed by 626-704;            *)
(*   - write_sitemaps is the definition of lines 890-915.                  *)
(* Exceptions the code raises on particular inputs (an empty keyword       *)
(* pool, an empty randint range, a missing plan entry) are modelled as     *)
(* the failure of the run.  Text generation (titles, paragraphs,           *)
(* templates, JSON-LD, compression) carries no state the properties read   *)
(* and is left out.                                                        *)
(***************************************************************************)
EXTENDS Integers, Sequences, FiniteSets, TLC

\* ------------------------------------------------------------ bounds
\* largest --total of the generation run (Spec)
MaxTotal == 2
\* largest --total of plan construction alone (SpecPlan)
MaxPlanTotal == 3
\* largest --batch
MaxBatch == 2
\* largest --internal of the generation run
MaxInternal == 2
\* number of generate_all invocations on one output directory
MaxRuns == 2
\* largest keyword pool
MaxKeywords == 2
\* largest --total and --internal of the link sampler taken alone (SpecLinks)
MaxLinkTotal == 12
MaxPerPage == 3
\* largest small --total of the sitemap writer taken alone (SpecSitemaps)
MaxSitemapTotal == 50
\* largest --total of plan construction with the extreme dates (SpecDates)
MaxDateTotal == 1

\* ------------------------------------------------------------ program constants
LANGS == <<"ar", "en", "fr">>
BASE_URL == "https://lyrics.trustdealzz.com"
\* len(EXTERNAL_SOURCES)
NumExternalSources == 50
\* len(CATEGORIES[lang]), the same for the three languages
NumCategories == 5
\* the +-10 window of the close ids
CloseWindow == 10
\* rand_date: first year of the range, (end - start).days, largest modification delay
StartYear == 2018
DeltaDays == 2921
MaxModDays == 240

NumLangs == Len(LANGS)
Min(a, b) == IF a < b THEN a ELSE b
Max(a, b) == IF a > b THEN a ELSE b

\* ------------------------------------------------------------ dates
IsLeap(y) == (y % 4 = 0 /\ y % 100 # 0) \/ y % 400 = 0
DaysInMonth(y, m) ==
    IF m = 2 THEN (IF IsLeap(y) THEN 29 ELSE 28)
    ELSE IF m \in {4, 6, 9, 11} THEN 30 ELSE 31

\* datetime(y, m, 1) + timedelta(days = k), as <<year, month, day>>
RECURSIVE DateFrom(_, _, _)
DateFrom(y, m, k) ==
    IF k < DaysInMonth(y, m) THEN <<y, m, k + 1>>
    ELSE IF m = 12 THEN DateFrom(y + 1, 1, k - DaysInMonth(y, m))
    ELSE DateFrom(y, m + 1, k - DaysInMonth(y, m))

\* a datetime is kept as its number of days after 2018-01-01
DateOf(days) == DateFrom(StartYear, 1, days)

\* end = datetime(2025,12,31), as <<year, month, day>>
EndDate == <<2025, 12, 31>>

\* rand_date(): the pairs (published, modified) it can return when the two
\* randint calls draw dd and md
rand_date_back(dd, md) == [published |-> dd, modified |-> dd - md]
rand_date(dd, md) == [published |-> dd, modified |-> dd + md]

\* ------------------------------------------------------------ paths and urls
\* A relative path is a record [kind, lang, y, m, n]; an article page is
\* {lang}/{yyyy}/{mm}/page-{id}.php
ArticlePathNoLang(lang, y, m, id) == [kind |-> "page", lang |-> "", y |-> y, m |-> m, n |-> id]
ArticlePath(lang, y, m, id) == [kind |-> "page", lang |-> lang, y |-> y, m |-> m, n |-> id]

\* Planner._slug_path(lang, pub_dt, i)
SlugPathOffByOne(lang, pub, i) ==
    ArticlePath(lang, DateOf(pub)[1], DateOf(pub)[2], i - 1)
_slug_path(lang, pub, i) ==
    ArticlePath(lang, DateOf(pub)[1], DateOf(pub)[2], i)

\* f"{BASE_URL}/{rel}"
UrlOf(rel) == [base |-> BASE_URL, path |-> rel]
NoUrl == [base |-> "", path |-> ArticlePath("", 0, 0, 0)]

\* {BASE_URL}/{lang}/category/{cat}/ and {BASE_URL}/{lang}/category/{cat}/{sub}/ ;
\* a directory url is served by the index.php in it
CategoryPath(lang, cat) == [kind |-> "category", lang |-> lang, y |-> 0, m |-> cat, n |-> 0]
HubPath(lang, cat) == [kind |-> "hub", lang |-> lang, y |-> 0, m |-> cat, n |-> 0]
SitePath(kind, lang) == [kind |-> kind, lang |-> lang, y |-> 0, m |-> 0, n |-> 0]

\* ------------------------------------------------------------ state
VARIABLES
    cfg,            \* the CLI arguments: total, batch, internal, ext_min, ext_max
    draws,          \* the outcomes of the random generator a specification covers
    keywords,       \* len(read_keywords()): the keyword pool is 0 .. keywords-1
    pc,             \* position of the run
    plan,           \* planner.plan[lang][id]
    by_lang_cat,    \* planner.by_lang_cat[lang][category]
    by_lang_index,  \* planner.by_lang_index[lang]
    bpos,           \* _build: <<index of lang in LANGS, i>>
    pid,            \* generate_all: pid of the emission loop
    lidx,           \* generate_all: index in LANGS of the inner loop
    disk,           \* relative paths of the files under the output root
    checkpoint,     \* last_index of generator_checkpoint.json, NoFile when absent
    emitted,        \* hrefs on the article pages written by this run
    runs,           \* generate_all invocations so far
    sample,         \* result of the link sampler called on its own
    sitemaps        \* the urls of each sitemap-NNN.xml and the entries of sitemap_index.xml

vars == <<cfg, draws, keywords, pc, plan, by_lang_cat, by_lang_index, bpos,
          pid, lidx, disk, checkpoint, emitted, runs, sample, sitemaps>>

NoFile == -1
NoSample == [op |-> "none", ok |-> TRUE, ids |-> <<>>, urls |-> <<>>]
NoSitemaps == [files |-> <<>>, index |-> <<>>]

\* ------------------------------------------------------------ planner
LangSet == {LANGS[k] : k \in 1 .. NumLangs}
EmptyPlan == [lang \in LangSet |-> <<>>]

\* dict lookup plan[lang][id]; KeyError when the id has no record
KeyError == [id |-> -1, lang |-> "KeyError", keyword |-> -1, published |-> -1,
             modified |-> -1, category |-> -1, rel |-> ArticlePath("", 0, 0, 0),
             url |-> [base |-> "KeyError", path |-> ArticlePath("", 0, 0, 0)]]
HasRecord(p, lang, id) == id \in DOMAIN p[lang]
PlanGet(p, lang, id) == IF HasRecord(p, lang, id) THEN p[lang][id] ELSE KeyError

\* Planner._kw_for(idx): index into the pool (ZeroDivisionError when it is empty)
_kw_for(idx, n) == idx % n

\* the dict stored at plan[lang][i] (lines 420-434); title, description, author
\* and tags are text and left out
RecordOfUrlApart(lang, i, dt, cat, nkw) ==
    LET rel == _slug_path(lang, dt.published, i) IN
    [id |-> i, lang |-> lang, keyword |-> _kw_for(i, nkw),
     published |-> dt.published, modified |-> dt.modified,
     category |-> cat, rel |-> rel, url |-> UrlOf(_slug_path(lang, 0, i))]
RecordOf(lang, i, dt, cat, nkw) ==
    LET rel == _slug_path(lang, dt.published, i) IN
    [id |-> i, lang |-> lang, keyword |-> _kw_for(i, nkw),
     published |-> dt.published, modified |-> dt.modified,
     category |-> cat, rel |-> rel, url |-> UrlOf(rel)]

\* d[k] = v on a dict kept as a function
DictPut(d, k, v) == [x \in DOMAIN d \cup {k} |-> IF x = k THEN v ELSE d[x]]
\* d.setdefault(k, []).append(v)
DictAppend(d, k, v) ==
    [x \in DOMAIN d \cup {k} |->
        IF x = k THEN Append(IF k \in DOMAIN d THEN d[k] ELSE <<>>, v) ELSE d[x]]

\* range(1, self.total + 1) of _build
BuildRangeShort(total) == 1 .. total - 1
BuildRange(total) == 1 .. total

\* position after <<l, i>> in the two loops of _build
NextBuildPosOneLang(l, i, total) ==
    IF i + 1 \in BuildRange(total) THEN <<l, i + 1>> ELSE <<NumLangs + 1, 1>>
NextBuildPos(l, i, total) ==
    IF i + 1 \in BuildRange(total) THEN <<l, i + 1>> ELSE <<l + 1, 1>>

\* generate_all lines 920-926 up to the call of _build: the shared files are
\* written, the Planner is initialised
StartRun ==
    /\ pc = "start"
    /\ disk' = disk \cup {SitePath("assets", ""), SitePath("header", ""),
                          SitePath("footer", ""), SitePath("robots", "")}
    /\ plan' = EmptyPlan
    /\ by_lang_index' = [lang \in LangSet |-> <<>>]
    /\ by_lang_cat' = [lang \in LangSet |-> <<>>]
    /\ bpos' = <<1, 1>>
    /\ pc' = "build"
    /\ UNCHANGED <<cfg, draws, keywords, pid, lidx, checkpoint, emitted, runs, sample, sitemaps>>

\* one iteration of the loops of _build (lines 418-439)
BuildRecord ==
    /\ pc = "build"
    /\ bpos[1] <= NumLangs
    /\ bpos[2] \in BuildRange(cfg.total)
    /\ LET lang == LANGS[bpos[1]]
           i == bpos[2]
       IN  IF keywords = 0
           THEN /\ pc' = "failed"
                /\ UNCHANGED <<plan, by_lang_cat, by_lang_index, bpos>>
           ELSE \E dd \in draws.days, md \in draws.mods, cat \in draws.cats :
                  LET rec == RecordOf(lang, i, rand_date(dd, md), cat, keywords) IN
                  /\ plan' = [plan EXCEPT ![lang] = DictPut(@, i, rec)]
                  /\ by_lang_cat' = [by_lang_cat EXCEPT ![lang] = DictAppend(@, cat, rec)]
                  /\ by_lang_index' = [by_lang_index EXCEPT ![lang] = Append(@, rec)]
                  /\ bpos' = NextBuildPos(bpos[1], i, cfg.total)
                  /\ pc' = "build"
    /\ UNCHANGED <<cfg, draws, keywords, pid, lidx, disk, checkpoint, emitted, runs, sample, sitemaps>>

\* _build returns; __init__ line 381 rebinds by_lang_cat
BuildDone ==
    /\ pc = "build"
    /\ bpos[1] > NumLangs \/ bpos[2] \notin BuildRange(cfg.total)
    /\ by_lang_cat' = [lang \in LangSet |-> <<>>]
    /\ pc' = "planned"
    /\ UNCHANGED <<cfg, draws, keywords, plan, by_lang_index, bpos, pid, lidx,
                   disk, checkpoint, emitted, runs, sample, sitemaps>>

\* the positions of a run after Planner(...) has returned
AfterBuild == {"planned", "emit", "ckpt", "home", "hubs", "rss", "sitemaps", "final", "done"}
Built == pc \in AfterBuild

\* ------------------------------------------------------------ link graph
KSubsets(S, k) == {T \in SUBSET S : Cardinality(T) = k}
\* random.shuffle: the orders of a pool
Perms(S) == {f \in [1 .. Cardinality(S) -> S] : \A a, b \in 1 .. Cardinality(S) : a # b => f[a] # f[b]}
\* s[:n]
Take(s, n) == SubSeq(s, 1, Min(n, Len(s)))

\* ids = list(range(1, total+1)); ids.remove(page_id)
IdsWithSelf(total, page_id) == 1 .. total
IdsExceptSelf(total, page_id) == (1 .. total) \ {page_id}

\* close = [i for i in range(max(1,page_id-10), min(total,page_id+10)+1) if i != page_id]
CloseIdsWithSelf(total, page_id) ==
    Max(1, page_id - CloseWindow) .. Min(total, page_id + CloseWindow)
CloseIdsUnclamped(total, page_id) ==
    ((page_id - CloseWindow) .. (page_id + CloseWindow)) \ {page_id}
CloseIds(total, page_id) ==
    {i \in Max(1, page_id - CloseWindow) .. Min(total, page_id + CloseWindow) : i # page_id}

\* k = min(len(population), per_page // 2)
SampleSize(n, per_page) == Min(n, per_page \div 2)

\* pool = list(set(random.sample(ids, k) + random.sample(close, k)))
SampledPools(total, page_id, per_page) ==
    LET ids == IdsExceptSelf(total, page_id)
        close == CloseIds(total, page_id)
    IN  {a \cup b : a \in KSubsets(ids, SampleSize(Cardinality(ids), per_page)),
                    b \in KSubsets(close, SampleSize(Cardinality(close), per_page))}

\* random.shuffle(pool); pool[:per_page]
LinkedIds(total, page_id, per_page) ==
    UNION {{Take(f, per_page) : f \in Perms(pool)} :
              pool \in SampledPools(total, page_id, per_page)}

\* build_internal_links(planner, lang, page_id, per_page): the results it can
\* return; ok is FALSE when it raises (ids.remove of an absent id, a missing
\* plan entry)
build_internal_links(p, total, lang, page_id, per_page) ==
    IF page_id \notin 1 .. total
    THEN {[op |-> "internal", ok |-> FALSE, ids |-> <<>>, urls |-> <<>>]}
    ELSE {IF \A k \in 1 .. Len(s) : HasRecord(p, lang, s[k])
          THEN [op |-> "internal", ok |-> TRUE, ids |-> s,
                urls |-> [k \in 1 .. Len(s) |-> p[lang][s[k]].url]]
          ELSE [op |-> "internal", ok |-> FALSE, ids |-> s, urls |-> <<>>]
          : s \in LinkedIds(total, page_id, per_page)}

\* n = random.randint(ext_min, min(ext_max, len(EXTERNAL_SOURCES))): the values
\* it can return; none when the range is empty (ValueError)
ExternalCounts(ext_min, ext_max) == ext_min .. Min(ext_max, NumExternalSources)

\* random.sample(EXTERNAL_SOURCES, k=n): the samples considered are the n
\* consecutive catalogue entries from start (wrapping), entries numbered from 0
CatalogueWindow(start, n) ==
    [k \in 1 .. n |-> (start + k - 1) % NumExternalSources]

\* build_external_links(ext_min, ext_max, keyword): the results it can return;
\* google is the keyword query link appended after the catalogue links
build_external_links(ext_min, ext_max) ==
    IF ExternalCounts(ext_min, ext_max) = {}
    THEN {[op |-> "external", ok |-> FALSE, ids |-> <<>>, urls |-> <<>>]}
    ELSE UNION {
           IF n < 0 \/ n > NumExternalSources
           THEN {[op |-> "external", ok |-> FALSE, ids |-> <<>>, urls |-> <<>>]}
           ELSE {[op |-> "external", ok |-> TRUE, ids |-> CatalogueWindow(s, n),
                  urls |-> <<"google">>] : s \in 0 .. NumExternalSources - 1}
           : n \in ExternalCounts(ext_min, ext_max)}

\* ------------------------------------------------------------ article page
\* prev_url / next_url of lines 673-674; NoUrl is the empty string, for which
\* pager_html emits no link
PrevUrlSelf(p, lang, page_id) ==
    IF page_id > 1 THEN PlanGet(p, lang, page_id).url ELSE NoUrl
PrevUrl(p, lang, page_id) ==
    IF page_id > 1 THEN PlanGet(p, lang, page_id - 1).url ELSE NoUrl
NextUrlNoGuard(p, total, lang, page_id) == PlanGet(p, lang, page_id + 1).url
NextUrl(p, total, lang, page_id) ==
    IF page_id < total THEN PlanGet(p, lang, page_id + 1).url ELSE NoUrl

\* hreflangs of lines 627-629: one (url, L) per language
HreflangsSelfOnly(p, lang, page_id) ==
    [k \in 1 .. 1 |-> [url |-> PlanGet(p, lang, page_id).url, lang |-> lang]]
Hreflangs(p, lang, page_id) ==
    [k \in 1 .. NumLangs |-> [url |-> PlanGet(p, LANGS[k], page_id).url, lang |-> LANGS[k]]]

\* the lookups of write_article_page that raise KeyError
PageLookupsOk(p, total, lang, page_id) ==
    /\ HasRecord(p, lang, page_id)
    /\ \A k \in 1 .. NumLangs : HasRecord(p, LANGS[k], page_id)
    /\ page_id > 1 => HasRecord(p, lang, page_id - 1)
    /\ page_id < total => HasRecord(p, lang, page_id + 1)

\* the hrefs write_article_page puts on the page of (lang, page_id): canonical,
\* hreflang alternates, category and subcategory crumbs, related links, pager
ArticleLinks(p, total, lang, page_id, related) ==
    LET r == p[lang][page_id]
        h == Hreflangs(p, lang, page_id)
    IN  {r.url}
        \cup {h[k].url : k \in DOMAIN h}
        \cup {UrlOf(CategoryPath(lang, r.category)), UrlOf(HubPath(lang, r.category))}
        \cup {related[k] : k \in DOMAIN related}
        \cup ({PrevUrl(p, lang, page_id), NextUrl(p, total, lang, page_id)} \ {NoUrl})

\* ------------------------------------------------------------ generate_all
\* lines 930-935: start_id from the checkpoint file
StartIdSkip == IF checkpoint = NoFile THEN 1 ELSE checkpoint + 2
StartId == IF checkpoint = NoFile THEN 1 ELSE checkpoint + 1

ReadCheckpoint ==
    /\ pc = "planned"
    /\ pid' = StartId
    /\ lidx' = 1
    /\ pc' = IF StartId <= cfg.total THEN "emit" ELSE "home"
    /\ UNCHANGED <<cfg, draws, keywords, plan, by_lang_cat, by_lang_index, bpos,
                   disk, checkpoint, emitted, runs, sample, sitemaps>>

\* lines 940-942: write_article_page for (LANGS[lidx], pid).  Path.write_text
\* (line 701) either writes the file or raises OSError; no caller catches it,
\* so the exception ends generate_all at position write_failed
WriteArticle ==
    /\ pc = "emit"
    /\ LET lang == LANGS[lidx] IN
       \E rel \in build_internal_links(plan, cfg.total, lang, pid, cfg.internal) :
       \E written \in BOOLEAN :
          IF /\ PageLookupsOk(plan, cfg.total, lang, pid)
             /\ rel.ok
             /\ ExternalCounts(cfg.ext_min, cfg.ext_max) # {}
          THEN IF written
               THEN /\ disk' = disk \cup {plan[lang][pid].rel}
                    /\ emitted' = emitted \cup ArticleLinks(plan, cfg.total, lang, pid, rel.urls)
                    /\ lidx' = IF lidx < NumLangs THEN lidx + 1 ELSE 1
                    /\ pc' = IF lidx < NumLangs THEN "emit" ELSE "ckpt"
               ELSE /\ pc' = "write_failed"
                    /\ UNCHANGED <<disk, emitted, lidx>>
          ELSE /\ pc' = "failed"
               /\ UNCHANGED <<disk, emitted, lidx>>
    /\ UNCHANGED <<cfg, draws, keywords, plan, by_lang_cat, by_lang_index, bpos,
                   pid, checkpoint, runs, sample, sitemaps>>

\* lines 945-950 and the step of the pid loop
CheckpointStepShort ==
    /\ pc = "ckpt"
    /\ checkpoint' = IF pid % cfg.batch = 0 THEN pid ELSE checkpoint
    /\ pid' = pid + 1
    /\ pc' = IF pid + 1 < cfg.total THEN "emit" ELSE "home"
    /\ UNCHANGED <<cfg, draws, keywords, plan, by_lang_cat, by_lang_index, bpos,
                   lidx, disk, emitted, runs, sample, sitemaps>>
CheckpointStep ==
    /\ pc = "ckpt"
    /\ checkpoint' = IF pid % cfg.batch = 0 THEN pid ELSE checkpoint
    /\ pid' = pid + 1
    /\ pc' = IF pid + 1 <= cfg.total THEN "emit" ELSE "home"
    /\ UNCHANGED <<cfg, draws, keywords, plan, by_lang_cat, by_lang_index, bpos,
                   lidx, disk, emitted, runs, sample, sitemaps>>

\* write_home: the language portals, the home page, 404 and privacy
WriteHome ==
    /\ pc = "home"
    /\ disk' = disk \cup {SitePath("langhome", l) : l \in LangSet}
                    \cup {SitePath("home", ""), SitePath("404", ""), SitePath("privacy", ""),
                          SitePath("assets", ""), SitePath("header", ""), SitePath("footer", "")}
    /\ pc' = "hubs"
    /\ UNCHANGED <<cfg, draws, keywords, plan, by_lang_cat, by_lang_index, bpos,
                   pid, lidx, checkpoint, emitted, runs, sample, sitemaps>>

\* the (year, month) keys of by_ym
ArchiveMonths(lang) ==
    {<<DateOf(by_lang_index[lang][k].published)[1], DateOf(by_lang_index[lang][k].published)[2]>> :
        k \in DOMAIN by_lang_index[lang]}

\* write_hubs_tags_archives: one hub per entry of CATEGORIES[lang], one archive
\* page per month in use, the archive index (tag pages are left out with the tags)
WriteHubsTagsArchives ==
    /\ pc = "hubs"
    /\ disk' = disk \cup {HubPath(l, c) : l \in LangSet, c \in 1 .. NumCategories}
                    \cup UNION {{[kind |-> "archive", lang |-> l, y |-> ym[1], m |-> ym[2], n |-> 0] :
                                   ym \in ArchiveMonths(l)} : l \in LangSet}
                    \cup {SitePath("archive", "")}
    /\ pc' = "rss"
    /\ UNCHANGED <<cfg, draws, keywords, plan, by_lang_cat, by_lang_index, bpos,
                   pid, lidx, checkpoint, emitted, runs, sample, sitemaps>>

\* write_rss: one feed per language and the index
WriteRss ==
    /\ pc = "rss"
    /\ disk' = disk \cup {SitePath("rss", l) : l \in LangSet} \cup {SitePath("rss", "")}
    /\ pc' = "sitemaps"
    /\ UNCHANGED <<cfg, draws, keywords, plan, by_lang_cat, by_lang_index, bpos,
                   pid, lidx, checkpoint, emitted, runs, sample, sitemaps>>

\* all_urls of write_sitemaps (lines 893-896)
RECURSIVE ConcatLangs(_)
ConcatLangs(k) ==
    IF k = 0 THEN <<>>
    ELSE ConcatLangs(k - 1) \o [j \in DOMAIN by_lang_index[LANGS[k]] |-> by_lang_index[LANGS[k]][j].url]
AllUrls == ConcatLangs(NumLangs)

\* chunks = [all_urls[i:i+limit] for i in range(0, len(all_urls), limit)]
ChunksExtra(urls, limit) ==
    [c \in 1 .. ((Len(urls) \div limit) + 1) |->
        SubSeq(urls, (c - 1) * limit + 1, Min(c * limit, Len(urls)))]
Chunks(urls, limit) ==
    [c \in 1 .. ((Len(urls) + limit - 1) \div limit) |->
        SubSeq(urls, (c - 1) * limit + 1, Min(c * limit, Len(urls)))]

SITEMAP_URLS_LIMIT == 50000

\* sitemaps/sitemap-{idx:03d}.xml
SitemapPath(idx) == [kind |-> "sitemap", lang |-> "", y |-> 0, m |-> 0, n |-> idx]

\* write_sitemaps: one file per chunk, holding the urls of the chunk, and the
\* index with one entry per chunk, numbered from 1
WriteSitemaps ==
    /\ pc = "sitemaps"
    /\ LET chunks == Chunks(AllUrls, SITEMAP_URLS_LIMIT) IN
       /\ disk' = disk \cup {SitemapPath(idx) : idx \in DOMAIN chunks}
                       \cup {SitePath("sitemap_index", "")}
       /\ sitemaps' = [files |-> chunks, index |-> [idx \in DOMAIN chunks |-> SitemapPath(idx)]]
    /\ pc' = "final"
    /\ UNCHANGED <<cfg, draws, keywords, plan, by_lang_cat, by_lang_index, bpos,
                   pid, lidx, checkpoint, emitted, runs, sample>>

\* line 960: the final checkpoint
Finish ==
    /\ pc = "final"
    /\ checkpoint' = cfg.total
    /\ pc' = "done"
    /\ UNCHANGED <<cfg, draws, keywords, plan, by_lang_cat, by_lang_index, bpos,
                   pid, lidx, disk, emitted, runs, sample, sitemaps>>

\* the process is stopped in the emission loop, between two ids, after it has
\* written pages
Kill ==
    /\ pc = "emit"
    /\ lidx = 1
    /\ emitted # {}
    /\ pc' = "killed"
    /\ UNCHANGED <<cfg, draws, keywords, plan, by_lang_cat, by_lang_index, bpos,
                   pid, lidx, disk, checkpoint, emitted, runs, sample, sitemaps>>

\* generate_all is started again on the same output directory; the run is
\* followed for the draws of published dates that fall on one day
Rerun ==
    /\ pc = "killed"
    /\ runs < MaxRuns
    /\ runs' = runs + 1
    /\ pc' = "start"
    /\ plan' = EmptyPlan
    /\ by_lang_cat' = [lang \in LangSet |-> <<>>]
    /\ by_lang_index' = [lang \in LangSet |-> <<>>]
    /\ bpos' = <<1, 1>>
    /\ pid' = 0
    /\ lidx' = 1
    /\ emitted' = {}
    /\ \E d \in draws.days : draws' = [draws EXCEPT !.days = {d}]
    /\ UNCHANGED <<cfg, keywords, disk, checkpoint, sample, sitemaps>>

\* ------------------------------------------------------------ samplers on their own
SampleInternal ==
    /\ pc = "links"
    /\ sample = NoSample
    /\ sample' \in build_internal_links(plan, cfg.total, LANGS[lidx], pid, cfg.internal)
    /\ UNCHANGED <<cfg, draws, keywords, pc, plan, by_lang_cat, by_lang_index, bpos,
                   pid, lidx, disk, checkpoint, emitted, runs, sitemaps>>

SampleExternal ==
    /\ pc = "external"
    /\ sample = NoSample
    /\ sample' \in build_external_links(cfg.ext_min, cfg.ext_max)
    /\ UNCHANGED <<cfg, draws, keywords, pc, plan, by_lang_cat, by_lang_index, bpos,
                   pid, lidx, disk, checkpoint, emitted, runs, sitemaps>>

\* ------------------------------------------------------------ specifications
Config(total, batch, internal, ext_min, ext_max) ==
    [total |-> total, batch |-> batch, internal |-> internal,
     ext_min |-> ext_min, ext_max |-> ext_max]

\* the published dates drawn: 2018-01-01 and 2018-02-01
DateDraws == {0, 31}
\* the --ext-min / --ext-max pairs of the run: a small pair and the defaults
ExtPairs == {<<1, 2>>, <<120, 220>>}
\* the --ext-min / --ext-max values of the sampler taken alone
ExtArgs == {0, 1, 2, 49, 50, 51, 120, 220}

Fresh ==
    /\ pc = "start"
    /\ plan = EmptyPlan
    /\ by_lang_cat = [lang \in LangSet |-> <<>>]
    /\ by_lang_index = [lang \in LangSet |-> <<>>]
    /\ bpos = <<1, 1>>
    /\ pid = 0
    /\ lidx = 1
    /\ disk = {}
    /\ checkpoint = NoFile
    /\ emitted = {}
    /\ runs = 1
    /\ sample = NoSample
    /\ sitemaps = NoSitemaps

\* the generation run, with stops and resumptions
Init ==
    /\ Fresh
    /\ \E t \in 0 .. MaxTotal, b \in 1 .. MaxBatch, n \in {0, MaxInternal}, e \in ExtPairs :
          cfg = Config(t, b, n, e[1], e[2])
    /\ keywords \in {0, MaxKeywords}
    /\ draws = [days |-> DateDraws, mods |-> {0}, cats |-> {1}]

Next ==
    \/ StartRun
    \/ BuildRecord
    \/ BuildDone
    \/ ReadCheckpoint
    \/ WriteArticle
    \/ CheckpointStep
    \/ WriteHome
    \/ WriteHubsTagsArchives
    \/ WriteRss
    \/ WriteSitemaps
    \/ Finish
    \/ Kill
    \/ Rerun

Spec == Init /\ [][Next]_vars

\* plan construction alone
InitPlan ==
    /\ Fresh
    /\ \E t \in 0 .. MaxPlanTotal : cfg = Config(t, 1, 0, 1, 2)
    /\ keywords \in 0 .. MaxKeywords
    /\ draws = [days |-> DateDraws, mods |-> {0}, cats |-> {1}]

NextPlan ==
    \/ StartRun
    \/ BuildRecord
    \/ BuildDone

SpecPlan == InitPlan /\ [][NextPlan]_vars

\* the plan _build leaves when every draw is d and the category is c
PlanWith(total, d, c, nkw) ==
    [lang \in LangSet |->
        [i \in BuildRange(total) |-> RecordOf(lang, i, rand_date(d, 0), c, nkw)]]

\* the internal link sampler on a built plan
InitLinks ==
    /\ pc = "links"
    /\ \E t \in 1 .. MaxLinkTotal, n \in 0 .. MaxPerPage :
          /\ cfg = Config(t, 1, n, 1, 2)
          /\ plan = PlanWith(t, 0, 1, 1)
          /\ by_lang_index = [lang \in LangSet |-> [i \in 1 .. t |-> plan[lang][i]]]
          /\ pid \in 1 .. t
    /\ lidx = 1
    /\ keywords = 1
    /\ draws = [days |-> {0}, mods |-> {0}, cats |-> {1}]
    /\ by_lang_cat = [lang \in LangSet |-> <<>>]
    /\ bpos = <<NumLangs + 1, 1>>
    /\ disk = {}
    /\ checkpoint = NoFile
    /\ emitted = {}
    /\ runs = 1
    /\ sample = NoSample
    /\ sitemaps = NoSitemaps

NextLinks == SampleInternal

SpecLinks == InitLinks /\ [][NextLinks]_vars

\* the external link sampler
InitExt ==
    /\ pc = "external"
    /\ \E a \in ExtArgs, b \in ExtArgs : cfg = Config(1, 1, 0, a, b)
    /\ keywords = 1
    /\ draws = [days |-> {0}, mods |-> {0}, cats |-> {1}]
    /\ plan = EmptyPlan
    /\ by_lang_cat = [lang \in LangSet |-> <<>>]
    /\ by_lang_index = [lang \in LangSet |-> <<>>]
    /\ bpos = <<1, 1>>
    /\ pid = 0
    /\ lidx = 1
    /\ disk = {}
    /\ checkpoint = NoFile
    /\ emitted = {}
    /\ runs = 1
    /\ sample = NoSample
    /\ sitemaps = NoSitemaps

NextExt == SampleExternal

SpecExt == InitExt /\ [][NextExt]_vars

\* plan construction with the ends of the two randint ranges of rand_date
InitDates ==
    /\ Fresh
    /\ \E t \in 1 .. MaxDateTotal : cfg = Config(t, 1, 0, 1, 2)
    /\ keywords = 1
    /\ draws = [days |-> {0, DeltaDays}, mods |-> {0, MaxModDays}, cats |-> {1}]

SpecDates == InitDates /\ [][NextPlan]_vars

\* the sitemap writer on a built plan: small totals, and the totals at which
\* the number of urls passes one and two times SITEMAP_URLS_LIMIT
BoundaryTotals ==
    {SITEMAP_URLS_LIMIT \div NumLangs, SITEMAP_URLS_LIMIT \div NumLangs + 1,
     (2 * SITEMAP_URLS_LIMIT) \div NumLangs + 1}

InitSitemaps ==
    /\ pc = "sitemaps"
    /\ \E t \in (0 .. MaxSitemapTotal) \cup BoundaryTotals :
          /\ cfg = Config(t, 1, 0, 1, 2)
          /\ plan = PlanWith(t, 0, 1, 1)
          /\ by_lang_index = [lang \in LangSet |-> [i \in 1 .. t |-> plan[lang][i]]]
          /\ pid = t + 1
    /\ lidx = 1
    /\ keywords = 1
    /\ draws = [days |-> {0}, mods |-> {0}, cats |-> {1}]
    /\ by_lang_cat = [lang \in LangSet |-> <<>>]
    /\ bpos = <<NumLangs + 1, 1>>
    /\ disk = {}
    /\ checkpoint = NoFile
    /\ emitted = {}
    /\ runs = 1
    /\ sample = NoSample
    /\ sitemaps = NoSitemaps

NextSitemaps == WriteSitemaps

SpecSitemaps == InitSitemaps /\ [][NextSitemaps]_vars

\* ------------------------------------------------------------ properties
\* a link resolves when a file has been written at its path under the base url
Resolves(u) == u.base = BASE_URL /\ u.path \in disk

\* the ids of the records of a language that have the url u
PagesAt(p, lang, u) == {j \in DOMAIN p[lang] : p[lang][j].url = u}

\* C1: once the plan is built with total > 0, the ids that have a record in
\* plan[lang] are exactly 1 .. total, for every language
C1_Density ==
    (Built /\ cfg.total > 0) =>
        \A lang \in LangSet : DOMAIN plan[lang] = 1 .. cfg.total

C1_Witness ==
    /\ Built
    /\ cfg.total = 3
    /\ \A lang \in LangSet : 3 \in DOMAIN plan[lang]

\* C2: when the run has finished, every href put on an article page written by
\* the run is the url of a file on disk
C2_LinksResolve ==
    pc = "done" => \A u \in emitted : Resolves(u)

\* C3: on a built plan every language has a record for every id of 1 .. total,
\* and the hreflang alternates of (lang, id) are one url per language, in the
\* order of LANGS, each the url of that language's record of the same id
C3_Hreflang ==
    Built =>
        \A lang \in LangSet : \A id \in 1 .. cfg.total :
            LET h == Hreflangs(plan, lang, id) IN
            /\ Len(h) = NumLangs
            /\ \A k \in 1 .. NumLangs :
                  /\ HasRecord(plan, LANGS[k], id)
                  /\ h[k].lang = LANGS[k]
                  /\ h[k].url = plan[LANGS[k]][id].url
                  /\ h[k].url.base = BASE_URL
                  /\ h[k].url.path.lang = LANGS[k]
                  /\ h[k].url.path.n = id

C3_Witness ==
    /\ Built
    /\ cfg.total >= 2
    /\ Hreflangs(plan, "en", 2)[3].url = plan["fr"][2].url
    /\ plan["fr"][2].published # plan["ar"][2].published

\* C4: on a built plan, for 1 < id < total the previous neighbour of id has id
\* as its next neighbour and the next neighbour of id has id as its previous
\* neighbour
C4_DoublyLinked ==
    Built =>
        \A lang \in LangSet : \A id \in 2 .. cfg.total - 1 :
            LET before == PagesAt(plan, lang, PrevUrl(plan, lang, id))
                after == PagesAt(plan, lang, NextUrl(plan, cfg.total, lang, id))
            IN  /\ before # {}
                /\ after # {}
                /\ \A j \in before : NextUrl(plan, cfg.total, lang, j) = plan[lang][id].url
                /\ \A j \in after : PrevUrl(plan, lang, j) = plan[lang][id].url

C4_Witness ==
    /\ Built
    /\ cfg.total = 3
    /\ PagesAt(plan, "en", PrevUrl(plan, "en", 2)) = {1}
    /\ PagesAt(plan, "en", NextUrl(plan, 3, "en", 2)) = {3}

\* C5: on a built plan the previous link of (lang, id) is the url of record
\* id-1 when id > 1 and absent when id = 1, the next link is the url of record
\* id+1 when id < total and absent when id = total, and no lookup fails
C5_Pager ==
    Built =>
        \A lang \in LangSet : \A id \in 1 .. cfg.total :
            LET pu == PrevUrl(plan, lang, id)
                nu == NextUrl(plan, cfg.total, lang, id)
            IN  /\ PageLookupsOk(plan, cfg.total, lang, id)
                /\ id = 1 => pu = NoUrl
                /\ id > 1 => /\ pu = plan[lang][id - 1].url
                             /\ pu.path.lang = lang /\ pu.path.n = id - 1
                /\ id = cfg.total => nu = NoUrl
                /\ id < cfg.total => /\ nu = plan[lang][id + 1].url
                                     /\ nu.path.lang = lang /\ nu.path.n = id + 1

C5_Witness ==
    /\ Built
    /\ cfg.total = 3
    /\ PrevUrl(plan, "en", 1) = NoUrl
    /\ NextUrl(plan, 3, "en", 3) = NoUrl
    /\ PrevUrl(plan, "en", 3) = plan["en"][2].url
    /\ NextUrl(plan, 3, "en", 1) = plan["en"][2].url

\* the sampler has been called on (LANGS[lidx], pid) with per_page = cfg.internal
Sampled == sample.op = "internal"

\* C6: for per_page in 0 .. total-1 the internal link sampler called on
\* (lang, id) never returns a link to record id
C6_NoSelfLink ==
    (Sampled /\ cfg.internal \in 0 .. cfg.total - 1) =>
        /\ \A k \in DOMAIN sample.ids : sample.ids[k] # pid
        /\ \A k \in DOMAIN sample.urls : sample.urls[k] # plan[LANGS[lidx]][pid].url

C6_Witness ==
    /\ Sampled
    /\ cfg.internal \in 0 .. cfg.total - 1
    /\ Len(sample.urls) = 2
    /\ pid = 2
    /\ {sample.ids[k] : k \in DOMAIN sample.ids} = {1, 3}

\* C7: the internal link sampler returns without error for every total >= 1,
\* id in 1 .. total and per_page >= 0, and every id it selects is in 1 .. total
C7_Total ==
    Sampled =>
        /\ sample.ok
        /\ Len(sample.urls) = Len(sample.ids)
        /\ \A k \in DOMAIN sample.ids :
              /\ sample.ids[k] \in 1 .. cfg.total
              /\ sample.urls[k] = plan[LANGS[lidx]][sample.ids[k]].url

C7_Witness ==
    /\ Sampled
    /\ sample.ok
    /\ cfg.total = 12
    /\ pid = 1
    /\ \E k \in DOMAIN sample.ids : sample.ids[k] = 12

\* C8: the internal link sampler returns at most min(per_page, total-1) links
C8_Bounded ==
    Sampled => Len(sample.urls) <= Min(cfg.internal, cfg.total - 1)

C8_Witness ==
    /\ Sampled
    /\ cfg.total = 2
    /\ cfg.internal = 3
    /\ Len(sample.urls) = 1

\* C9: whenever total-1 >= per_page the internal link sampler returns exactly
\* per_page links
C9_ExactCount ==
    (Sampled /\ cfg.total - 1 >= cfg.internal) => Len(sample.urls) = cfg.internal

\* the catalogue entries of a result of the external sampler
ExternalIds == {sample.ids[k] : k \in DOMAIN sample.ids}

\* C10: build_external_links returns without error, with at least
\* min(ext_min, |catalogue|) and at most min(ext_max, |catalogue|) catalogue
\* links, all distinct catalogue entries
C10_ExternalCount ==
    sample.op = "external" =>
        /\ sample.ok
        /\ Len(sample.ids) >= Min(cfg.ext_min, NumExternalSources)
        /\ Len(sample.ids) <= Min(cfg.ext_max, NumExternalSources)
        /\ Cardinality(ExternalIds) = Len(sample.ids)
        /\ ExternalIds \subseteq 0 .. NumExternalSources - 1

\* C11: on a built plan the keyword of record (lang, id) is entry
\* (id-1) mod |pool| of the keyword pool, entries numbered from 0
C11_Keyword ==
    (Built /\ keywords > 0) =>
        \A lang \in LangSet : \A id \in DOMAIN plan[lang] :
            plan[lang][id].keyword = (id - 1) % keywords

\* a step of one run: neither the start of generate_all nor a new invocation
SameRun == pc # "start" /\ pc' # "start"
\* a step in which write_article_page writes the page of (LANGS[lidx], pid)
PageWritten == pc = "emit" /\ pc' \in {"emit", "ckpt"}

\* C12: within a run the rel and the url of a record never change once the
\* record is in the plan, and the file write_article_page writes for (lang, id)
\* is at the record's rel, which is the path of the record's url and is
\* {lang}/{yyyy}/{mm}/page-{id} for the year and month of the published date
C12_PathStable ==
    [][/\ SameRun =>
            \A lang \in LangSet : \A id \in DOMAIN plan[lang] :
                /\ id \in DOMAIN plan'[lang]
                /\ plan'[lang][id].rel = plan[lang][id].rel
                /\ plan'[lang][id].url = plan[lang][id].url
                /\ plan'[lang][id].published = plan[lang][id].published
       /\ PageWritten =>
            LET lang == LANGS[lidx]
                r == plan[lang][pid]
            IN  /\ disk' = disk \cup {r.rel}
                /\ r.url = UrlOf(r.rel)
                /\ r.rel = ArticlePath(lang, DateOf(r.published)[1], DateOf(r.published)[2], pid)
      ]_vars

C12_Witness ==
    /\ pc = "ckpt"
    /\ plan["fr"][pid].rel \in disk
    /\ plan["fr"][pid].rel.m = 2
    /\ plan["fr"][pid].url.path = plan["fr"][pid].rel
    /\ plan["ar"][pid].rel.m = 1

\* the plan has a record for every language and every id of 1 .. total
PlanComplete(p) == \A lang \in LangSet : DOMAIN p[lang] = 1 .. cfg.total

\* C13: in a run every iteration of _build stores one record that the plan did
\* not have, the plan is complete for all languages and ids 1 .. total when
\* Planner(...) has returned, it is not assigned again in the run, and a page
\* file is written only with the complete plan
C13_BuiltOnce ==
    [][/\ (pc = "build" /\ pc' = "build") =>
            \E lang \in LangSet : \E i \in 1 .. cfg.total :
                /\ i \notin DOMAIN plan[lang]
                /\ DOMAIN plan'[lang] = DOMAIN plan[lang] \cup {i}
                /\ \A j \in DOMAIN plan[lang] : plan'[lang][j] = plan[lang][j]
                /\ \A other \in LangSet \ {lang} : plan'[other] = plan[other]
       /\ pc' \in AfterBuild => PlanComplete(plan')
       /\ (Built /\ SameRun) => plan' = plan
       /\ PageWritten => PlanComplete(plan) /\ plan' = plan
      ]_vars

C13_Witness ==
    /\ pc = "ckpt"
    /\ cfg.total = 2
    /\ pid = 1
    /\ PlanComplete(plan)
    /\ \A lang \in LangSet : plan[lang][1].rel \in disk /\ plan[lang][2].rel \notin disk

\* the loops of _build have ended
BuildFinished ==
    /\ pc \in {"build"} \cup AfterBuild
    /\ bpos[1] > NumLangs \/ bpos[2] \notin BuildRange(cfg.total)

\* by_lang_cat[lang] lists every record of the language under its category
CategoryIndexIntact ==
    \A lang \in LangSet : \A id \in DOMAIN plan[lang] :
        /\ plan[lang][id].category \in DOMAIN by_lang_cat[lang]
        /\ \E k \in DOMAIN by_lang_cat[lang][plan[lang][id].category] :
              by_lang_cat[lang][plan[lang][id].category][k] = plan[lang][id]

\* C14: once the loops of _build have ended no step of the run changes the
\* plan, the by-language index or the category index, and the category index
\* lists every record when the run goes on to the writers
C14_ReadOnly ==
    [][(BuildFinished /\ pc' # "start") =>
          /\ plan' = plan
          /\ by_lang_index' = by_lang_index
          /\ by_lang_cat' = by_lang_cat
          /\ Built' => CategoryIndexIntact'
      ]_vars

\* C15: a run with total <= 0 stops with an error before Planner(...) returns
\* a plan: it reaches no position after the construction, so it writes no page
\* and does not complete
C15_TotalFatal ==
    cfg.total <= 0 => pc \notin AfterBuild

\* the article page files on disk
PageFiles == {f \in disk : f.kind = "page"}

\* C16: a run with an empty keyword pool stops with an error and never has a
\* plan: Planner(...) does not return, no record is stored and no article page
\* is written
C16_EmptyPoolFatal ==
    keywords = 0 =>
        /\ pc \notin AfterBuild
        /\ plan = EmptyPlan
        /\ PageFiles = {}

\* some run has written the page of (lang, id)
HasPage(lang, id) == \E f \in PageFiles : f.lang = lang /\ f.n = id

\* C17: when the write of the page of one record has failed and the run has
\* ended (write_failed is a final position), the plan is still complete and
\* the pages of all the other records of ids 1 .. total have been written
C17_WriteFailureIsolated ==
    pc = "write_failed" =>
        /\ PlanComplete(plan)
        /\ \A lang \in LangSet : \A id \in 1 .. cfg.total :
              <<lang, id>> # <<LANGS[lidx], pid>> => HasPage(lang, id)

\* the files the writers of lines 953-957 produce
AggregateKinds ==
    {"langhome", "home", "404", "privacy", "hub", "archive", "rss", "sitemap", "sitemap_index"}
AggregateFiles == {f \in disk : f.kind \in AggregateKinds}
\* the positions of the run from the call of write_home on
AggregatePositions == {"home", "hubs", "rss", "sitemaps", "final", "done"}

\* C18: when the run is at the aggregate writers, or any file of theirs is on
\* disk, the page of every (lang, id) with id in 1 .. total has been written
\* (in a run from an empty directory, at the rel of its record), and the
\* archive pages written are those of the months of by_lang_index
C18_AggregatesLast ==
    (pc \in AggregatePositions \/ AggregateFiles # {}) =>
        /\ \A lang \in LangSet : \A id \in 1 .. cfg.total :
              /\ HasPage(lang, id)
              /\ runs = 1 => plan[lang][id].rel \in disk
        /\ \A f \in AggregateFiles :
              (f.kind = "archive" /\ f.lang \in LangSet) =>
                  <<f.y, f.m>> \in ArchiveMonths(f.lang)

C18_Witness ==
    /\ pc = "rss"
    /\ cfg.total = 2
    /\ \A lang \in LangSet : HasPage(lang, 1) /\ HasPage(lang, 2)
    /\ \E f \in AggregateFiles : f.kind = "archive" /\ f.lang = "en" /\ f.m = 2

\* the urls of the sitemap files, in the order of the files
RECURSIVE SitemapUrls(_)
SitemapUrls(n) == IF n = 0 THEN <<>> ELSE SitemapUrls(n - 1) \o sitemaps.files[n]

\* C19: when write_sitemaps has run, every sitemap file holds at least one and
\* at most 50,000 urls, the files taken in order hold the urls of the records
\* of the plan, one entry per (lang, id), and the index has one entry per file,
\* ceil(3 * total / 50000) of them, each for a file on disk
C19_SitemapChunks ==
    pc \in {"final", "done"} =>
        LET files == sitemaps.files
            all == SitemapUrls(Len(files))
            t == cfg.total
        IN  /\ \A c \in DOMAIN files : Len(files[c]) \in 1 .. SITEMAP_URLS_LIMIT
            /\ Len(all) = NumLangs * t
            /\ \A k \in 1 .. Len(all) :
                  all[k] = plan[LANGS[((k - 1) \div t) + 1]][((k - 1) % t) + 1].url
            /\ Len(sitemaps.index) = (NumLangs * t + SITEMAP_URLS_LIMIT - 1) \div SITEMAP_URLS_LIMIT
            /\ Len(sitemaps.index) = Len(files)
            /\ \A c \in DOMAIN sitemaps.index :
                  sitemaps.index[c] = SitemapPath(c) /\ SitemapPath(c) \in disk

C19_Witness ==
    /\ pc = "final"
    /\ cfg.total = 2
    /\ Len(sitemaps.files) = 1
    /\ Len(sitemaps.files[1]) = 6
    /\ sitemaps.files[1][6] = plan["fr"][2].url
    /\ sitemaps.index = <<SitemapPath(1)>>

\* a <= b on dates <<year, month, day>>
DateLeq(a, b) ==
    \/ a[1] < b[1]
    \/ a[1] = b[1] /\ a[2] < b[2]
    \/ a[1] = b[1] /\ a[2] = b[2] /\ a[3] <= b[3]

\* C20: every record of the plan, at any point of the construction and after
\* it, has modified >= published, published between 2018-01-01 and 2025-12-31
\* and modified at most 240 days after published
C20_Dates ==
    \A lang \in LangSet : \A id \in DOMAIN plan[lang] :
        LET r == plan[lang][id]
            pub == DateOf(r.published)
        IN  /\ r.modified >= r.published
            /\ r.modified - r.published <= 240
            /\ DateLeq(<<2018, 1, 1>>, pub)
            /\ DateLeq(pub, <<2025, 12, 31>>)
            /\ DateLeq(pub, DateOf(r.modified))

C20_Witness ==
    /\ Built
    /\ plan["ar"][1].published = DeltaDays
    /\ DateOf(plan["ar"][1].published) = EndDate
    /\ plan["ar"][1].modified = plan["ar"][1].published + 240
    /\ DateOf(plan["en"][1].published) = <<2018, 1, 1>>
    /\ plan["en"][1].modified = plan["en"][1].published

\* the place of the run in the two loops of lines 939-950: the pid and, within
\* it, the language to write next (NumLangs + 1 when the pid is complete)
LoopPos == <<pid, IF pc = "ckpt" THEN NumLangs + 1 ELSE lidx>>
\* the run is in the emission loop
InLoop == pc \in {"emit", "ckpt"}

\* C21: the emission loop is entered at id last_index + 1 (id 1 without a
\* checkpoint file), writes the pages of one id language by language, goes from
\* an id to the next one and is left only after id total; and whenever the
\* checkpoint file holds last_index = k, a page has been written for every
\* language and every id of 1 .. k
C21_CheckpointOrder ==
    [][/\ (pc = "planned" /\ pc' # "planned") =>
            /\ pid' = (IF checkpoint = NoFile THEN 0 ELSE checkpoint) + 1
            /\ lidx' = 1
            /\ pc' = IF pid' <= cfg.total THEN "emit" ELSE "home"
       /\ PageWritten =>
            /\ pid \in 1 .. cfg.total
            /\ \E f \in PageFiles' : f.lang = LANGS[lidx] /\ f.n = pid
            /\ LoopPos' = <<pid, lidx + 1>>
       /\ (pc = "ckpt" /\ pc' # "ckpt") =>
            /\ pid' = pid + 1
            /\ lidx' = 1
            /\ pc' = IF pid' <= cfg.total THEN "emit" ELSE "home"
            /\ checkpoint' \in {checkpoint, pid}
       /\ (InLoop /\ InLoop') => (pid' = pid \/ pid' = pid + 1)
       /\ checkpoint' # NoFile =>
            \A lang \in LangSet : \A id \in 1 .. checkpoint' : HasPage(lang, id)'
      ]_vars

C21_Witness ==
    /\ runs = 2
    /\ cfg.total = 2
    /\ checkpoint = 1
    /\ pc = "ckpt"
    /\ pid = 2
    /\ \A lang \in LangSet : HasPage(lang, 1) /\ HasPage(lang, 2)

\* the places <<category, k>> of the category index of a language that hold
\* the record r
CategoryPlaces(lang, r) ==
    {<<c, k>> \in UNION {{c} \X DOMAIN by_lang_cat[lang][c] : c \in DOMAIN by_lang_cat[lang]} :
        by_lang_cat[lang][c][k] = r}

\* C22: on a built plan by_lang_index[lang] is the records of the language in
\* ascending id order, and every record is at exactly one place of
\* by_lang_cat[lang], in the list of its own category, which is an entry of
\* CATEGORIES[lang]
C22_Indices ==
    Built =>
        \A lang \in LangSet :
            /\ by_lang_index[lang] = [i \in 1 .. cfg.total |-> plan[lang][i]]
            /\ \A id \in DOMAIN plan[lang] :
                  LET r == plan[lang][id] IN
                  /\ r.category \in 1 .. NumCategories
                  /\ Cardinality(CategoryPlaces(lang, r)) = 1
                  /\ \A pl \in CategoryPlaces(lang, r) : pl[1] = r.category

\* the (lang, id) pairs of the records of a plan
PlanKeys(p) == UNION {{<<lang, id>> : id \in DOMAIN p[lang]} : lang \in LangSet}

\* no two records of the plan p have the same rel or the same url
DistinctPaths(p) ==
    \A a \in PlanKeys(p) : \A b \in PlanKeys(p) :
        a # b => /\ p[a[1]][a[2]].rel # p[b[1]][b[2]].rel
                 /\ p[a[1]][a[2]].url # p[b[1]][b[2]].url

\* C23: whenever a record is stored, the records of the plan have pairwise
\* distinct paths; and the file a page write targets is the path of no other
\* record of the plan and, when it is on disk already, is a page of the same
\* (lang, id)
C23_DistinctPaths ==
    [][/\ plan' # plan => DistinctPaths(plan')
       /\ PageWritten =>
            LET lang == LANGS[lidx]
                r == plan[lang][pid]
            IN  /\ \A b \in PlanKeys(plan) \ {<<lang, pid>>} : plan[b[1]][b[2]].rel # r.rel
                /\ r.rel.lang = lang /\ r.rel.n = pid
                /\ \A f \in PageFiles : f = r.rel => (f.lang = lang /\ f.n = pid)
      ]_vars

C23_Witness ==
    /\ pc = "home"
    /\ runs = 1
    /\ cfg.total = 2
    /\ \A a \in PlanKeys(plan) : plan[a[1]][a[2]].published = 0
    /\ Cardinality(PageFiles) = 6

=============================================================================
